---- MODULE Spec2Model ----
(***************************************************************************)
(* Model of the schema compiler of src/lib/Spikenail.js:                   *)
(* createGraphqlSchema and its helpers buildCRUDMutation,                  *)
(* wrapTypeIntoConnection, schemaToGraphqlFields, schemaToMutationFields   *)
(* and fieldToGraphqlType, plus the resolvers the compiler generates       *)
(* (node resolution, type resolution, mutation output fields).             *)
(*                                                                         *)
(* Strings are sequences of one-character strings, so that concatenation,  *)
(* capitalize and pluralize are computed character by character.  A JS     *)
(* object used as a dictionary is a function whose domain is the set of    *)
(* its keys.                                                               *)
(***************************************************************************)
EXTENDS Integers, Sequences, FiniteSets, TLC

VARIABLES
    models,         \* this.models: the model descriptors, in key order
    pc,             \* position inside createGraphqlSchema
    idx,            \* index of the current loop of createGraphqlSchema
    modelTypes,     \* modelTypes: name -> GraphQLObjectType placeholder
    modelFields,    \* modelFields: name -> fields of the type
    viewerModel,    \* viewerModel: 0 (undefined) or an index into models
    viewerFields,   \* viewerFields: fields of the viewer root
    queryFields,    \* queryFields: fields of the Query root
    viewer,         \* viewer: the viewer field, when defined
    mutationFields, \* mutationFields: fields of the Mutation root
    connections,    \* the Edge/Connection type pairs created so far
    finalSchema,    \* the value createGraphqlSchema returned
    requests,       \* per request: ctx.state.dataLoaders
    resolved        \* the last call of a generated resolver and its result

vars == <<models, pc, idx, modelTypes, modelFields, viewerModel, viewerFields,
          queryFields, viewer, mutationFields, connections, finalSchema,
          requests, resolved>>

compileVars == <<models, pc, idx, modelTypes, modelFields, viewerModel,
                 viewerFields, queryFields, viewer, mutationFields,
                 connections, finalSchema>>

(***************************************************************************)
(* Bounds                                                                  *)
(***************************************************************************)
\* Largest number of models in one compilation.
MaxModels == 2

\* Largest number of models in the compilations whose resolvers are run.
MaxRunModels == 1

(***************************************************************************)
(* Strings                                                                 *)
(***************************************************************************)
LowerChars == <<"a","b","c","d","e","f","g","h","i","j","k","l","m",
                "n","o","p","q","r","s","t","u","v","w","x","y","z">>

UpperChars == <<"A","B","C","D","E","F","G","H","I","J","K","L","M",
                "N","O","P","Q","R","S","T","U","V","W","X","Y","Z">>

ToUpperChar(c) ==
    IF \E k \in 1..26 : LowerChars[k] = c
    THEN UpperChars[CHOOSE k \in 1..26 : LowerChars[k] = c]
    ELSE c

ToLowerChar(c) ==
    IF \E k \in 1..26 : UpperChars[k] = c
    THEN LowerChars[CHOOSE k \in 1..26 : UpperChars[k] = c]
    ELSE c

\* lodash.capitalize: first character to upper case, the rest to lower case.
capitalize(s) ==
    [k \in 1..Len(s) |-> IF k = 1 THEN ToUpperChar(s[k]) ELSE ToLowerChar(s[k])]

\* pluralize, for a word no special or irregular rule applies to: the base
\* rule replaces an optional final "s" by "s".
pluralize(s) ==
    IF Len(s) > 0 /\ ToLowerChar(s[Len(s)]) = "s" THEN s ELSE s \o <<"s">>

S_id         == <<"i","d">>
S_user       == <<"u","s","e","r">>
S_viewer     == <<"v","i","e","w","e","r">>
S_node       == <<"n","o","d","e">>
S_get        == <<"g","e","t">>
S_all        == <<"a","l","l">>
S_errors     == <<"e","r","r","o","r","s">>
S_removedId  == <<"r","e","m","o","v","e","d","I","d">>
S_create     == <<"c","r","e","a","t","e">>
S_update     == <<"u","p","d","a","t","e">>
S_remove     == <<"r","e","m","o","v","e">>
S_Edge       == <<"E","d","g","e">>
S_Connection == <<"C","o","n","n","e","c","t","i","o","n">>
S_underscore == <<"_">>
S_Query      == <<"Q","u","e","r","y">>
S_Mutation   == <<"M","u","t","a","t","i","o","n">>
S_MutationError == <<"M","u","t","a","t","i","o","n","E","r","r","o","r">>
S_none       == << >>

Actions == <<S_create, S_update, S_remove>>

(***************************************************************************)
(* Dictionaries                                                            *)
(***************************************************************************)
EmptyMap == [k \in {} |-> k]

\* obj[key] = value
Put(obj, key, value) == (key :> value) @@ obj

\* delete obj[key]
Delete(obj, key) == [k \in DOMAIN obj \ {key} |-> obj[k]]

\* Object.assign(target, source)
Assign(target, source) == source @@ target

(***************************************************************************)
(* GraphQL types, fields, arguments and resolvers                          *)
(***************************************************************************)
GraphQLString  == [kind |-> "String",  nonNull |-> FALSE, name |-> S_none]
GraphQLBoolean == [kind |-> "Boolean", nonNull |-> FALSE, name |-> S_none]
GraphQLInt     == [kind |-> "Int",     nonNull |-> FALSE, name |-> S_none]
GraphQLFloat   == [kind |-> "Float",   nonNull |-> FALSE, name |-> S_none]
GraphQLID      == [kind |-> "ID",      nonNull |-> FALSE, name |-> S_none]
GraphQLJSON    == [kind |-> "JSON",    nonNull |-> FALSE, name |-> S_none]

\* The value of an expression such as types[ref] when ref is no key.
UndefinedType  == [kind |-> "Undefined", nonNull |-> FALSE, name |-> S_none]

GraphQLObjectType(name) == [kind |-> "Object", nonNull |-> FALSE, name |-> name]

GraphQLList(t) == [kind |-> "List", nonNull |-> FALSE, name |-> t.name]

GraphQLNonNull(t) == [t EXCEPT !.nonNull = TRUE]

getNullableType(t) == [t EXCEPT !.nonNull = FALSE]

NoArgs == [of |-> "none", model |-> S_none]

\* model.getGraphqlItemArgs() and model.getGraphqlListArgs() of the model
\* named m: the argument contracts the model itself supplies.
ItemArgs(m) == [of |-> "item", model |-> m]

ListArgs(m) == [of |-> "list", model |-> m]

\* A resolver is described by the function it calls and what it closes over.
Resolver(fn, m, prop) == [fn |-> fn, model |-> m, prop |-> prop]

\* No resolve function: the execution engine passes the property through.
DefaultResolver == Resolver("default", S_none, S_none)

Field(type, args, resolve) == [type |-> type, args |-> args, resolve |-> resolve]

\* graphql-relay globalIdField(typeName, idFetcher): a non-null ID whose
\* resolver encodes (typeName, value of the fetched property).
globalIdField(typeName, idProp) ==
    Field(GraphQLNonNull(GraphQLID), NoArgs, Resolver("toGlobalId", typeName, idProp))

(***************************************************************************)
(* Model descriptors the compilations are run on                           *)
(***************************************************************************)
N_post  == <<"p","o","s","t">>
N_Post  == <<"P","o","s","t">>
N_a     == <<"a">>
N_a_b   == <<"a","_","b">>
N_ghost == <<"g","h","o","s","t">>

Property(prop, type, relation, ref, fk) ==
    [prop |-> prop, type |-> type, relation |-> relation, ref |-> ref,
     foreignKeyFor |-> fk]

Scalar(prop, type) == Property(prop, type, "none", S_none, S_none)

\* Post of the README-style example, with a hasOne relation to user.
PropsPost ==
    << Scalar(S_id, "id"),
       Scalar(<<"t","i","t","l","e">>, "String"),
       Property(<<"a","u","t","h","o","r","I","d">>, "id", "none", S_none, S_user),
       Property(<<"a","u","t","h","o","r">>, "none", "hasOne", S_user, S_none) >>

\* User, with a hasMany relation to post.
PropsUser ==
    << Scalar(S_id, "id"),
       Scalar(<<"n","a","m","e">>, "String"),
       Scalar(<<"a","g","e">>, "Number"),
       Property(<<"p","o","s","t","s">>, "none", "hasMany", N_post, S_none) >>

\* Two hasMany relations to a_b and one property of every other kind.
PropsMisc ==
    << Property(<<"b","_","c">>, "none", "hasMany", N_a_b, S_none),
       Property(<<"c">>, "none", "hasMany", N_a_b, S_none),
       Scalar(<<"f","l","a","g">>, "Boolean"),
       Scalar(<<"s","c","o","r","e">>, "Float"),
       Scalar(<<"m","e","t","a">>, "Object"),
       Scalar(<<"t","a","g","s">>, "Array"),
       Scalar(<<"w","h","e","n">>, "Date") >>

\* properties, and the property names schema.resolvers has a function for
Shapes ==
    { [properties |-> PropsPost, resolvers |-> {}],
      [properties |-> PropsUser, resolvers |-> {<<"n","a","m","e">>}],
      [properties |-> PropsMisc, resolvers |-> {}] }

ModelNames == {N_post, N_Post, S_user, S_viewer, N_a, N_a_b}

Descriptors ==
    { [name |-> n, isViewer |-> v, properties |-> s.properties,
       resolvers |-> s.resolvers] :
        n \in ModelNames, v \in BOOLEAN, s \in Shapes }

RunDescriptors ==
    { d \in Descriptors :
        /\ d.name \in {N_post, S_user, S_viewer}
        /\ d.properties = PropsPost }

\* loadModels keys the models by their names: no two share one.
ModelSets(catalog, max) ==
    { ms \in UNION { [1..n -> catalog] : n \in 1..max } :
        \A i, j \in 1..Len(ms) : i # j => ms[i].name # ms[j].name }

Names(ms) == { ms[i].name : i \in 1..Len(ms) }

\* this.models[name]
ModelNamed(ms, name) == ms[CHOOSE i \in 1..Len(ms) : ms[i].name = name]

\* model.schema: the schema carries the model's name.
ModelSchema(model) ==
    [name |-> model.name, properties |-> model.properties,
     resolvers |-> model.resolvers]

(***************************************************************************)
(* fieldToGraphqlType, schemaToMutationFields, schemaToGraphqlFields,      *)
(* wrapTypeIntoConnection, buildCRUDMutation                               *)
(***************************************************************************)
\* types[name], undefined when name is no key of types
TypeOf(types, name) == IF name \in DOMAIN types THEN types[name] ELSE UndefinedType

fieldToGraphqlType(prop, field, schema) ==
    CASE field.type = "id" ->
            IF field.foreignKeyFor # S_none
            THEN globalIdField(field.foreignKeyFor, prop)
            ELSE IF schema.name = S_viewer
                 THEN globalIdField(S_user, S_id)
                 ELSE globalIdField(schema.name, S_id)
      [] field.type = "String"  -> Field(GraphQLString, NoArgs, DefaultResolver)
      [] field.type = "Boolean" -> Field(GraphQLBoolean, NoArgs, DefaultResolver)
      [] field.type = "Number"  -> Field(GraphQLInt, NoArgs, DefaultResolver)
      [] field.type = "Float"   -> Field(GraphQLFloat, NoArgs, DefaultResolver)
      [] field.type = "Object"  -> Field(GraphQLJSON, NoArgs, DefaultResolver)
      [] field.type = "Array"   -> Field(GraphQLJSON, NoArgs, DefaultResolver)
      [] OTHER                  -> Field(GraphQLString, NoArgs, DefaultResolver)

RECURSIVE MutationFieldsFrom(_, _, _)
MutationFieldsFrom(schema, k, fields) ==
    IF k > Len(schema.properties) THEN fields
    ELSE LET field == schema.properties[k]
             f     == fieldToGraphqlType(field.prop, field, schema)
         IN IF field.relation # "none"
            THEN MutationFieldsFrom(schema, k + 1, fields)
            ELSE MutationFieldsFrom(schema, k + 1,
                    Put(fields, field.prop,
                        [f EXCEPT !.type = getNullableType(f.type)]))

\* schemaToMutationFields without the getNullableType step.
schemaToMutationFields_KeepNonNull(schema) ==
    LET scalars == { k \in 1..Len(schema.properties) :
                        schema.properties[k].relation = "none" }
    IN [p \in { schema.properties[k].prop : k \in scalars } |->
          LET field == schema.properties[
                          CHOOSE k \in scalars : schema.properties[k].prop = p]
          IN fieldToGraphqlType(p, field, schema)]

schemaToMutationFields(schema) == MutationFieldsFrom(schema, 1, EmptyMap)

\* The Edge and Connection object types one wrapping creates.
ConnectionTypes(owner, via, element, node, base) ==
    [owner |-> owner, via |-> via, element |-> element, node |-> node,
     edgeName |-> base \o S_Edge, connName |-> base \o S_Connection]

\* The loop of schemaToGraphqlFields from property k on.  this.models[ref]
\* is undefined for a ref that names no model, and the call of
\* getGraphqlListArgs on it throws.
RECURSIVE GraphqlFieldsFrom(_, _, _, _, _)
GraphqlFieldsFrom(schema, types, ms, k, acc) ==
    IF k > Len(schema.properties) THEN acc
    ELSE LET field == schema.properties[k]
             prop  == field.prop
             base  == schema.name \o S_underscore \o prop
             conn  == ConnectionTypes(schema.name, prop, field.ref,
                                      TypeOf(types, field.ref), base)
             plain == fieldToGraphqlType(prop, field, schema)
         IN IF field.relation # "none"
            THEN IF field.relation = "hasMany"
                 THEN IF field.ref \notin Names(ms)
                      THEN [acc EXCEPT !.threw = TRUE,
                                       !.created = Append(@, conn)]
                      ELSE GraphqlFieldsFrom(schema, types, ms, k + 1,
                             [acc EXCEPT
                                !.fields = Put(@, prop,
                                    Field(GraphQLObjectType(conn.connName),
                                          ListArgs(field.ref),
                                          Resolver("resolveHasMany", field.ref, prop))),
                                !.created = Append(@, conn)])
                 ELSE GraphqlFieldsFrom(schema, types, ms, k + 1, acc)
            ELSE GraphqlFieldsFrom(schema, types, ms, k + 1,
                   [acc EXCEPT !.fields = Put(@, prop,
                       IF prop \in schema.resolvers
                       THEN [plain EXCEPT !.resolve =
                                Resolver("custom", schema.name, prop)]
                       ELSE plain)])

\* threw: the call raised; fields: the value returned; created: the
\* Edge/Connection pairs created on the way.
schemaToGraphqlFields(schema, types, ms) ==
    GraphqlFieldsFrom(schema, types, ms, 1,
        [threw |-> FALSE, fields |-> EmptyMap, created |-> << >>])

wrapTypeIntoConnection(type, parentName) ==
    LET name == type.name
        base == parentName \o S_underscore \o name
    IN [conn  |-> ConnectionTypes(parentName, S_none, name, type, base),
        field |-> Field(GraphQLObjectType(base \o S_Connection),
                        ListArgs(name),
                        Resolver("resolveAll", name, S_none))]

\* The output fields of one mutation, in the order the code builds them.
OutputFields(action, name, types, vw) ==
    LET successResolver ==
            IF action \in {S_create, S_update}
            THEN Resolver("successResolver", name, S_none)
            ELSE DefaultResolver
        literal ==
            Put(Put(EmptyMap, S_errors,
                    Field(GraphQLList(GraphQLObjectType(S_MutationError)),
                          NoArgs, Resolver("errors", S_none, S_none))),
                name, Field(TypeOf(types, name), NoArgs, successResolver))
        echoed == IF vw.defined THEN Put(literal, S_viewer, vw.field) ELSE literal
    IN IF action = S_remove
       THEN Delete(Put(echoed, S_removedId,
                       Field(GraphQLString, NoArgs,
                             Resolver("removedId", S_none, S_none))),
                   name)
       ELSE echoed

\* The input fields of one mutation.
InputFields(action, model) ==
    LET mutationFields0 == schemaToMutationFields(ModelSchema(model))
    IN IF action = S_create THEN Delete(mutationFields0, S_id) ELSE mutationFields0

\* buildCRUDMutation returning the mutation under its type name.
buildCRUDMutation_NameAsKey(action, model, types, vw) ==
    LET mutationName == action \o capitalize(model.name)
    IN capitalize(mutationName) :>
         [name         |-> capitalize(mutationName),
          inputFields  |-> InputFields(action, model),
          outputFields |-> OutputFields(action, model.name, types, vw),
          mutate       |-> [model |-> model.name, action |-> action]]

buildCRUDMutation(action, model, types, vw) ==
    LET mutationName == action \o capitalize(model.name)
    IN mutationName :>
         [name         |-> capitalize(mutationName),
          inputFields  |-> InputFields(action, model),
          outputFields |-> OutputFields(action, model.name, types, vw),
          mutate       |-> [model |-> model.name, action |-> action]]

(***************************************************************************)
(* createGraphqlSchema                                                     *)
(***************************************************************************)
UndefinedViewer == [defined |-> FALSE, field |-> Field(UndefinedType, NoArgs, DefaultResolver)]

NoSchema == [defined |-> FALSE, query |-> S_none, mutation |-> S_none]

\* nodeField of nodeDefinitions: the node(id) field of the Node interface.
nodeField ==
    Field([kind |-> "Interface", nonNull |-> FALSE, name |-> S_node],
          [of |-> "id", model |-> S_none],
          Resolver("node", S_none, S_none))

NoCall ==
    [call |-> "none", req |-> 0, type |-> S_none, id |-> S_none,
     mutation |-> S_none, field |-> S_none,
     payload |-> [result |-> [present |-> FALSE, id |-> S_none],
                  errors |-> [present |-> FALSE, list |-> << >>]],
     value |-> [kind |-> "none", req |-> 0, type |-> S_none, id |-> S_none,
                list |-> << >>]]

\* The state on entry to createGraphqlSchema(models), up to the first loop.
Entry(ms, reqs) ==
    /\ models = ms
    /\ pc = "prepare"
    /\ idx = 1
    /\ modelTypes = EmptyMap
    /\ modelFields = EmptyMap
    /\ viewerModel = 0
    /\ viewerFields = EmptyMap
    /\ queryFields = Put(EmptyMap, S_node, nodeField)
    /\ viewer = UndefinedViewer
    /\ mutationFields = EmptyMap
    /\ connections = << >>
    /\ finalSchema = NoSchema
    /\ requests = reqs
    /\ resolved = NoCall

Init ==
    \E ms \in ModelSets(Descriptors, MaxModels) : Entry(ms, << >>)

\* Where a loop over Object.keys(models) goes after iteration i.
LoopNext(i, again, after) ==
    IF i < Len(models) THEN [pc |-> again, idx |-> i + 1]
    ELSE [pc |-> after, idx |-> 1]

\* A type whose fields were given as the value modelFields[name] had when
\* the type was created, not as a function.
getFields_Eager(type) == EmptyMap

\* The fields of a model's type, as its deferred provider returns them: the
\* value of modelFields[name] at the time of the call.
getFields(type) == modelFields[type.name]

\* First loop, one iteration: the viewer model and the placeholder type.
PrepareModel ==
    /\ pc = "prepare"
    /\ LET model == models[idx]
           name  == model.name
           next  == LoopNext(idx, "prepare", "viewerFields")
       IN /\ viewerModel' = IF model.isViewer THEN idx ELSE viewerModel
          /\ modelFields' = Put(modelFields, name, EmptyMap)
          /\ modelTypes' = Put(modelTypes, name, GraphQLObjectType(name))
          /\ pc' = next.pc
          /\ idx' = next.idx
    /\ UNCHANGED <<models, viewerFields, queryFields, viewer, mutationFields,
                   connections, finalSchema, requests, resolved>>

\* viewerFields, with the user field when a viewer model was found.
InitialViewerFields(vm, types) ==
    LET idOnly == Put(EmptyMap, S_id, globalIdField(S_user, S_id))
    IN IF vm # 0
       THEN Put(idOnly, S_user,
                Field(TypeOf(types, S_user), NoArgs,
                      Resolver("resolveViewer", models[vm].name, S_none)))
       ELSE idOnly

BuildViewerFields ==
    /\ pc = "viewerFields"
    /\ viewerFields' = InitialViewerFields(viewerModel, modelTypes)
    /\ pc' = "fill"
    /\ UNCHANGED <<models, idx, modelTypes, modelFields, viewerModel,
                   queryFields, viewer, mutationFields, connections,
                   finalSchema, requests, resolved>>

\* Second loop, one iteration: the fields of the model's type, its root
\* list on the viewer and its get field on the query.  An exception leaves
\* createGraphqlSchema; start() catches and logs it.
FillModel ==
    /\ pc = "fill"
    /\ LET model == models[idx]
           name  == model.name
           built == schemaToGraphqlFields(ModelSchema(model), modelTypes, models)
           graphqlType == modelTypes[name]
           wrapped == wrapTypeIntoConnection(graphqlType, S_viewer)
           next  == LoopNext(idx, "fill", "viewer")
       IN IF built.threw
          THEN /\ pc' = "failed"
               /\ connections' = connections \o built.created
               /\ UNCHANGED <<idx, modelFields, viewerFields, queryFields>>
          ELSE /\ modelFields' = Put(modelFields, name, built.fields)
               /\ viewerFields' =
                     Put(viewerFields, S_all \o capitalize(pluralize(name)),
                         wrapped.field)
               /\ queryFields' =
                     Put(queryFields, S_get \o capitalize(name),
                         Field(graphqlType, ItemArgs(name),
                               Resolver("resolveItem", name, S_none)))
               /\ connections' = connections \o built.created \o <<wrapped.conn>>
               /\ pc' = next.pc
               /\ idx' = next.idx
    /\ UNCHANGED <<models, modelTypes, viewerModel, viewer, mutationFields,
                   finalSchema, requests, resolved>>

\* The viewer field, defined when viewerFields has a key.
ViewerOf(vf) ==
    IF DOMAIN vf # {}
    THEN [defined |-> TRUE,
          field |-> Field(GraphQLObjectType(S_viewer), NoArgs,
                          Resolver("emptyObject", S_none, S_none))]
    ELSE UndefinedViewer

BuildViewer ==
    /\ pc = "viewer"
    /\ viewer' = ViewerOf(viewerFields)
    /\ pc' = "mutations"
    /\ UNCHANGED <<models, idx, modelTypes, modelFields, viewerModel,
                   viewerFields, queryFields, mutationFields, connections,
                   finalSchema, requests, resolved>>

\* Third loop, one iteration: the three mutations of the model.
BuildMutations ==
    /\ pc = "mutations"
    /\ LET model == models[idx]
           next  == LoopNext(idx, "mutations", "assemble")
       IN /\ mutationFields' =
                Assign(Assign(Assign(mutationFields,
                    buildCRUDMutation(S_create, model, modelTypes, viewer)),
                    buildCRUDMutation(S_update, model, modelTypes, viewer)),
                    buildCRUDMutation(S_remove, model, modelTypes, viewer))
          /\ pc' = next.pc
          /\ idx' = next.idx
    /\ UNCHANGED <<models, modelTypes, modelFields, viewerModel, viewerFields,
                   queryFields, viewer, connections, finalSchema, requests,
                   resolved>>

\* The root types and the schema returned.
Assemble ==
    /\ pc = "assemble"
    /\ queryFields' =
          IF viewer.defined THEN Put(queryFields, S_viewer, viewer.field)
          ELSE queryFields
    /\ finalSchema' = [defined |-> TRUE, query |-> S_Query, mutation |-> S_Mutation]
    /\ pc' = "done"
    /\ UNCHANGED <<models, idx, modelTypes, modelFields, viewerModel,
                   viewerFields, viewer, mutationFields, connections,
                   requests, resolved>>

Next ==
    \/ PrepareModel
    \/ BuildViewerFields
    \/ FillModel
    \/ BuildViewer
    \/ BuildMutations
    \/ Assemble

Spec == Init /\ [][Next]_vars

(***************************************************************************)
(* The generated resolvers                                                 *)
(***************************************************************************)
\* Requests served side by side, each with its own ctx.state.dataLoaders.
NumRequests == 2

\* The type names a request's dataLoaders may have a loader for.
LoaderSets == { {}, {N_post}, {N_post, S_user} }

NodeTypes == {N_post, S_user, N_ghost}

LocalIds == { <<"7">>, <<"7", ":", "8">> }

ErrorLists == { << >>, <<"e1", "e2">>, <<"e2", "e1">> }

\* What a mutate handler returns: { result, errors }.  A result without an
\* identifier has the empty id.
Payloads ==
    { [result |-> r, errors |-> e] :
        r \in { [present |-> FALSE, id |-> S_none],
                [present |-> TRUE,  id |-> S_none],
                [present |-> TRUE,  id |-> <<"7">>] },
        e \in { [present |-> FALSE, list |-> << >>] }
              \cup { [present |-> TRUE, list |-> l] : l \in ErrorLists } }

\* graphql-relay toGlobalId: base64 of "type:id".  The base64 text is kept
\* as a box around the text it encodes.
toGlobalId(type, id) == [base64 |-> type \o <<":">> \o id]

\* graphql-relay fromGlobalId: unbase64, then split at the first colon
\* (indexOf gives -1 when there is none: the type is empty, the id is all).
fromGlobalId(globalId) ==
    LET text == globalId.base64
        colons == { k \in 1..Len(text) : text[k] = ":" }
        delimiterPos == IF colons = {} THEN 0
                        ELSE CHOOSE k \in colons : \A j \in colons : k <= j
    IN [type |-> SubSeq(text, 1, delimiterPos - 1),
        id   |-> SubSeq(text, delimiterPos + 1, Len(text))]

Value(kind, req, type, id, list) ==
    [kind |-> kind, req |-> req, type |-> type, id |-> id, list |-> list]

Null == Value("null", 0, S_none, S_none, << >>)

\* Node resolution with the loaders of the first request kept for all.
NodeResolver_SharedLoaders(globalId, req) ==
    LET decoded == fromGlobalId(globalId)
        dataLoaders == requests[1]
    IN IF decoded.type \notin dataLoaders THEN Null
       ELSE Value("load", 1, decoded.type, decoded.id, << >>)

\* The first function given to nodeDefinitions, run for request req.
NodeResolver(globalId, req) ==
    LET decoded == fromGlobalId(globalId)
        dataLoaders == requests[req]
    IN IF decoded.type \notin dataLoaders THEN Null
       ELSE Value("load", req, decoded.type, decoded.id, << >>)

\* The second function given to nodeDefinitions.
TypeResolver(modelName) ==
    IF modelName \in DOMAIN modelTypes
    THEN Value("type", 0, modelTypes[modelName].name, S_none, << >>)
    ELSE Null

\* Output resolution whose successResolver does not look at result.id.
OutputResolver_NoIdCheck(resolve, payload) ==
    CASE resolve.fn = "successResolver" ->
            IF ~payload.result.present THEN Null
            ELSE Value("resolveOne", 0, resolve.model, payload.result.id, << >>)
      [] resolve.fn = "errors" ->
            IF payload.errors.present /\ Len(payload.errors.list) > 0
            THEN Value("errors", 0, S_none, S_none, payload.errors.list)
            ELSE Null
      [] resolve.fn = "removedId" ->
            IF ~payload.result.present
            THEN Value("throw", 0, S_none, S_none, << >>)
            ELSE Value("id", 0, S_none, payload.result.id, << >>)
      [] resolve.fn = "emptyObject" -> Value("object", 0, S_none, S_none, << >>)
      [] OTHER -> Value("passthrough", 0, S_none, S_none, << >>)

\* The resolve function of an output field of a mutation, applied to the
\* payload the mutate handler returned.
OutputResolver(resolve, payload) ==
    CASE resolve.fn = "successResolver" ->
            IF ~payload.result.present \/ payload.result.id = S_none THEN Null
            ELSE Value("resolveOne", 0, resolve.model, payload.result.id, << >>)
      [] resolve.fn = "errors" ->
            IF payload.errors.present /\ Len(payload.errors.list) > 0
            THEN Value("errors", 0, S_none, S_none, payload.errors.list)
            ELSE Null
      [] resolve.fn = "removedId" ->
            IF ~payload.result.present
            THEN Value("throw", 0, S_none, S_none, << >>)
            ELSE Value("id", 0, S_none, payload.result.id, << >>)
      [] resolve.fn = "emptyObject" -> Value("object", 0, S_none, S_none, << >>)
      [] OTHER -> Value("passthrough", 0, S_none, S_none, << >>)

Call(call, req, type, id, mutation, field, payload, value) ==
    [call |-> call, req |-> req, type |-> type, id |-> id,
     mutation |-> mutation, field |-> field, payload |-> payload,
     value |-> value]

\* node(id: toGlobalId(type, id)) in request req.
ResolveNode ==
    /\ pc = "done"
    /\ resolved = NoCall
    /\ \E req \in 1..NumRequests, type \in NodeTypes, id \in LocalIds :
          resolved' = Call("node", req, type, id, S_none, S_none,
                           NoCall.payload,
                           NodeResolver(toGlobalId(type, id), req))
    /\ UNCHANGED <<compileVars, requests>>

\* Type resolution of an entity whose constructor.modelName is modelName.
ResolveType ==
    /\ pc = "done"
    /\ resolved = NoCall
    /\ \E modelName \in ModelNames \cup {N_ghost} :
          resolved' = Call("type", 0, modelName, S_none, S_none, S_none,
                           NoCall.payload, TypeResolver(modelName))
    /\ UNCHANGED <<compileVars, requests>>

\* One output field of one mutation resolved against a handler's payload.
ResolveOutput ==
    /\ pc = "done"
    /\ resolved = NoCall
    /\ \E key \in DOMAIN mutationFields, payload \in Payloads :
          \E fieldKey \in DOMAIN mutationFields[key].outputFields :
             resolved' =
                Call("output", 0, S_none, S_none, key, fieldKey, payload,
                     OutputResolver(
                        mutationFields[key].outputFields[fieldKey].resolve,
                        payload))
    /\ UNCHANGED <<compileVars, requests>>

\* The resolver returns: JavaScript runs one resolver call at a time.
Return ==
    /\ resolved # NoCall
    /\ resolved' = NoCall
    /\ UNCHANGED <<compileVars, requests>>

InitRun ==
    \E ms \in ModelSets(RunDescriptors, MaxRunModels),
       reqs \in [1..NumRequests -> LoaderSets] : Entry(ms, reqs)

NextRun ==
    \/ PrepareModel
    \/ BuildViewerFields
    \/ FillModel
    \/ BuildViewer
    \/ BuildMutations
    \/ Assemble
    \/ ResolveNode
    \/ ResolveType
    \/ ResolveOutput
    \/ Return

SpecRun == InitRun /\ [][NextRun]_vars

(***************************************************************************)
(* Claims                                                                  *)
(***************************************************************************)
ModelIndexes == 1..Len(models)

RelationProps(model) ==
    { k \in 1..Len(model.properties) : model.properties[k].relation # "none" }

\* Some hasOne or hasMany property names a model that is not in the set.
UnresolvedRef ==
    \E i \in ModelIndexes : \E k \in RelationProps(models[i]) :
        models[i].properties[k].ref \notin Names(models)

\* C1: when some property with relation hasOne or hasMany has a ref naming
\* a model that is not in the set, createGraphqlSchema raises and returns
\* no schema.
C1_UnresolvedRefFails == UnresolvedRef => ~finalSchema.defined

\* C2: any two connections generated in one compilation for distinct
\* (owner context, element type) pairs, the owner context of a hasMany
\* property being its model and property, have different Edge type names
\* and different Connection type names.
C2_ConnectionNamesDiffer ==
    \A i, j \in 1..Len(connections) :
        LET c == connections[i]
            d == connections[j]
        IN <<c.owner, c.via, c.element>> # <<d.owner, d.via, d.element>>
           => /\ c.edgeName # d.edgeName
              /\ c.connName # d.connName

MutationKeys == DOMAIN mutationFields

\* The model a mutation was built for, and its action.
MutationModel(key) == ModelNamed(models, mutationFields[key].mutate.model)

MutationAction(key) == mutationFields[key].mutate.action

\* C5: every mutation has the errors output field; create and update have
\* the affected-entity field named after the model; remove has removedId
\* and no entity field; and whenever a viewer root exists all three have
\* the viewer field, whatever the model is named.
C5_OutputFieldSet ==
    \A key \in MutationKeys :
        LET out    == mutationFields[key].outputFields
            name   == mutationFields[key].mutate.model
            action == MutationAction(key)
        IN /\ S_errors \in DOMAIN out
           /\ out[S_errors].resolve.fn = "errors"
           /\ action \in {S_create, S_update} =>
                 /\ name \in DOMAIN out
                 /\ out[name].resolve.fn = "successResolver"
           /\ action = S_remove =>
                 /\ S_removedId \in DOMAIN out
                 /\ out[S_removedId].resolve.fn = "removedId"
                 /\ \A k \in DOMAIN out :
                       out[k].resolve.fn \notin {"successResolver", "default"}
           /\ viewer.defined =>
                 /\ S_viewer \in DOMAIN out
                 /\ out[S_viewer] = viewer.field

Flagged == { i \in ModelIndexes : models[i].isViewer }

\* C8: the viewer root's user and id fields exist exactly when some model
\* is flagged as viewer; with no model flagged the Query has no viewer
\* root and no mutation payload has a viewer field; with several flagged
\* the viewer model is the first one flagged.
C8_ViewerOnlyWhenFlagged ==
    finalSchema.defined =>
        /\ S_user \in DOMAIN viewerFields <=> Flagged # {}
        /\ S_id \in DOMAIN viewerFields <=> Flagged # {}
        /\ Flagged = {} =>
              /\ S_viewer \notin DOMAIN queryFields
              /\ \A key \in MutationKeys :
                    S_viewer \notin DOMAIN mutationFields[key].outputFields
        /\ Flagged # {} =>
              /\ viewerModel \in Flagged
              /\ \A i \in Flagged : viewerModel <= i

\* C9: the mutation built for (action, model) is named
\* capitalize(action + capitalize(name)), and a schema is returned only
\* when no two (action, model) pairs share a mutation name or field key.
C9_MutationNamesUnique ==
    /\ \A key \in MutationKeys :
          mutationFields[key].name =
             capitalize(MutationAction(key) \o
                        capitalize(mutationFields[key].mutate.model))
    /\ finalSchema.defined =>
          \A i, j \in ModelIndexes : \A a, b \in 1..3 :
             <<i, a>> # <<j, b>> =>
                /\ Actions[a] \o capitalize(models[i].name)
                      # Actions[b] \o capitalize(models[j].name)
                /\ capitalize(Actions[a] \o capitalize(models[i].name))
                      # capitalize(Actions[b] \o capitalize(models[j].name))

ScalarPropNames(model) ==
    { model.properties[k].prop :
        k \in (1..Len(model.properties)) \ RelationProps(model) }

QueryAndViewerRoots ==
    /\ S_node \in DOMAIN queryFields
    /\ \A i \in ModelIndexes :
          S_get \o capitalize(models[i].name) \in DOMAIN queryFields
    /\ S_viewer \in DOMAIN queryFields
    /\ {S_id, S_user} \subseteq DOMAIN viewerFields
    /\ \A i \in ModelIndexes :
          S_all \o capitalize(pluralize(models[i].name)) \in DOMAIN viewerFields

\* C3 as claimed: for a model set with a viewer model, the Query root has
\* node and get<Model> per model, the viewer root has id, user and
\* all<PluralModel> per model, and the Mutation root has exactly the
\* entries Create<Model>, Update<Model>, Remove<Model> of every model.
C3_RootFieldsCapitalized ==
    (finalSchema.defined /\ Flagged # {}) =>
        /\ QueryAndViewerRoots
        /\ MutationKeys =
              { capitalize(Actions[a]) \o capitalize(models[i].name) :
                  a \in 1..3, i \in ModelIndexes }

\* C3 as amended: the same, the entries of the Mutation root being
\* create<Model>, update<Model>, remove<Model>, the action in lower case
\* and <Model> the capitalized model name.
C3_RootFields ==
    (finalSchema.defined /\ Flagged # {}) =>
        /\ QueryAndViewerRoots
        /\ MutationKeys =
              { Actions[a] \o capitalize(models[i].name) :
                  a \in 1..3, i \in ModelIndexes }

\* Two models, one of them the viewer, compiled into six mutations.
C3_Witness ==
    /\ finalSchema.defined
    /\ Flagged # {}
    /\ Len(models) = 2
    /\ Cardinality(MutationKeys) = 6

\* C4: the input fields of a mutation are exactly the model's non-relation
\* properties, without id for create and with it for update and remove,
\* and the type of each is the nullable form of the query field's type.
C4_InputFields ==
    \A key \in MutationKeys :
        LET input  == mutationFields[key].inputFields
            model  == MutationModel(key)
            query  == getFields(modelTypes[model.name])
        IN /\ DOMAIN input =
                 IF MutationAction(key) = S_create
                 THEN ScalarPropNames(model) \ {S_id}
                 ELSE ScalarPropNames(model)
           /\ \A p \in DOMAIN input :
                 /\ ~input[p].type.nonNull
                 /\ input[p].type.kind = query[p].type.kind
                 /\ input[p].type.name = query[p].type.name

\* A model with an id and a relation: its create mutation takes neither,
\* its update mutation takes the id as a nullable ID.
C4_Witness ==
    /\ finalSchema.defined
    /\ \E c, u \in MutationKeys :
          /\ MutationAction(c) = S_create
          /\ MutationAction(u) = S_update
          /\ MutationModel(c) = MutationModel(u)
          /\ RelationProps(MutationModel(c)) # {}
          /\ S_id \in ScalarPropNames(MutationModel(c))
          /\ S_id \notin DOMAIN mutationFields[c].inputFields
          /\ S_id \in DOMAIN mutationFields[u].inputFields
          /\ mutationFields[u].inputFields[S_id].type = GraphQLID

\* The models whose fields the second loop has assigned.
FilledNames ==
    CASE pc = "fill" -> { models[k].name : k \in 1..(idx - 1) }
      [] pc \in {"prepare", "viewerFields", "failed"} -> {}
      [] OTHER -> Names(models)

PlaceholdersBeforeFields ==
    /\ (\E n \in DOMAIN modelFields : modelFields[n] # EmptyMap)
          => Names(models) \subseteq DOMAIN modelTypes
    /\ \A k \in 1..Len(connections) :
          connections[k].element \in Names(models)
             => connections[k].node = GraphQLObjectType(connections[k].element)

FieldsReadThroughProvider ==
    finalSchema.defined =>
        \A i \in ModelIndexes :
            getFields(modelTypes[models[i].name]) =
               schemaToGraphqlFields(ModelSchema(models[i]), modelTypes, models).fields

FilledOnce ==
    \A n \in FilledNames : modelFields'[n] = modelFields[n]

\* C10: every model has its placeholder type before the fields of any
\* model are computed, so that any reference between models resolves to a
\* type; the fields of a model, once assigned, are never assigned again;
\* and after createGraphqlSchema has returned, the provider of every type
\* returns the fields computed from the model's schema.
C10_PlaceholderThenFill ==
    /\ [](PlaceholdersBeforeFields /\ FieldsReadThroughProvider)
    /\ [][FilledOnce]_vars

\* A compiled cycle: model i refers to model j and j to i (i = j for a
\* self-reference), both with fields.
C10_Witness ==
    /\ finalSchema.defined
    /\ \E i, j \in ModelIndexes :
          /\ \E k \in RelationProps(models[i]) :
                models[i].properties[k].ref = models[j].name
          /\ \E k \in RelationProps(models[j]) :
                models[j].properties[k].ref = models[i].name
          /\ getFields(modelTypes[models[i].name]) # EmptyMap
          /\ getFields(modelTypes[models[j].name]) # EmptyMap

\* The output field the last resolver call was made on.
ResolvedField == mutationFields[resolved.mutation].outputFields[resolved.field]

\* The affected-entity field of a create or update payload.
ResolvedEntityField ==
    /\ resolved.call = "output"
    /\ MutationAction(resolved.mutation) \in {S_create, S_update}
    /\ ResolvedField.resolve.fn = "successResolver"

\* The errors field of a payload.
ResolvedErrorsField ==
    /\ resolved.call = "output"
    /\ ResolvedField.resolve.fn = "errors"

EntityRefetchedOrNull ==
    ResolvedEntityField =>
        LET result == resolved.payload.result
        IN IF ~result.present \/ result.id = S_none
           THEN resolved.value = Null
           ELSE resolved.value =
                   Value("resolveOne", 0,
                         mutationFields[resolved.mutation].mutate.model,
                         result.id, << >>)

\* C6 as claimed: the entity field of a create or update payload resolves
\* to null when the handler's result is absent or has no identifier and to
\* the entity fetched by that identifier otherwise; the errors field
\* resolves to the handler's error list in its order, the empty list when
\* there are no errors.
C6_ErrorsListPossiblyEmpty ==
    /\ EntityRefetchedOrNull
    /\ ResolvedErrorsField =>
          /\ resolved.value.kind = "errors"
          /\ resolved.value.list = resolved.payload.errors.list

\* C6 as amended: the same, the errors field resolving to the handler's
\* error list in its order when that list is not empty, and to null when
\* it is absent or empty.
C6_PayloadFields ==
    /\ EntityRefetchedOrNull
    /\ ResolvedErrorsField =>
          LET errors == resolved.payload.errors
          IN IF errors.present /\ errors.list # << >>
             THEN /\ resolved.value.kind = "errors"
                  /\ resolved.value.list = errors.list
             ELSE resolved.value = Null

\* An update whose handler returned an identifier: the entity is fetched.
C6_Witness ==
    /\ ResolvedEntityField
    /\ MutationAction(resolved.mutation) = S_update
    /\ resolved.payload.result.id = <<"7">>
    /\ resolved.value.kind = "resolveOne"
    /\ resolved.value.id = <<"7">>

\* C7: node resolution of the global id of (type, id) gives null when the
\* context of the request has no loader for the type and otherwise the
\* load of id by the loader of that type in that request's context; type
\* resolution of an entity whose model name has no compiled type gives
\* null, and the model's type otherwise.
C7_NodeAndTypeResolution ==
    /\ resolved.call = "node" =>
          IF resolved.type \in requests[resolved.req]
          THEN resolved.value =
                  Value("load", resolved.req, resolved.type, resolved.id, << >>)
          ELSE resolved.value = Null
    /\ resolved.call = "type" =>
          IF resolved.type \in Names(models)
          THEN resolved.value = Value("type", 0, resolved.type, S_none, << >>)
          ELSE resolved.value = Null

\* A type that has a loader in another request's context and none in the
\* context of the request that resolves the node: null.
C7_Witness ==
    /\ resolved.call = "node"
    /\ resolved.type \notin requests[resolved.req]
    /\ \E other \in 1..NumRequests : resolved.type \in requests[other]
    /\ resolved.value = Null

====
